---- MODULE Spec2Model ----
(***************************************************************************)
(* Active-record base class of app/common/db.py (Base / Model) over one    *)
(* table, the Dummies table of tests/fixtures/db.py (id INTEGER PRIMARY    *)
(* KEY, name NOT NULL, birthdate nullable).  A caller runs one             *)
(* active-record call at a time; a call is a sequence of steps (open the   *)
(* session, stage, commit or query, roll back, raise or return).  Every    *)
(* statement sent to the database may also fail.                           *)
(***************************************************************************)
EXTENDS Integers, FiniteSets, Sequences, TLC

(* ------------------------------ bounds --------------------------------- *)
MaxId == 2
Callers == {"c1", "c2"}
\* The callers of Spec, in which calls do not overlap.
Sequential == {"c1"}
Names == {"Jon", "Tom"}
Dates == {<<1986, 4, 4>>}
Ids == 1..MaxId

(* --------------------------- python values ----------------------------- *)
\* Values are tagged by their python type; the tag is the field name.
None == [none |-> TRUE]
Unset == [unset |-> TRUE]
IntV(n) == [int |-> n]
StrV(s) == [str |-> s]
DateV(d) == [date |-> d]

IsNone(x) == "none" \in DOMAIN x
IsUnset(x) == "unset" \in DOMAIN x
\* isinstance(x, int)
IsInt(x) == "int" \in DOMAIN x
IsStr(x) == "str" \in DOMAIN x

\* An instance of the entity class: the attributes held in its __dict__
\* (Unset: never assigned) and whether it carries an identity key, that is
\* whether it was loaded from or written to the database.
Instance(id, name, birthdate, persisted) ==
    [id |-> id, name |-> name, birthdate |-> birthdate, persisted |-> persisted]

\* Reading an attribute that was never assigned yields None.
GetAttr(inst, k) == IF IsUnset(inst[k]) THEN None ELSE inst[k]

NoInstance == [noinstance |-> TRUE]

(* ------------------------------ the table ------------------------------ *)
\* Column names of the Dummies table.
Columns == {"id", "name", "birthdate"}

\* A table is a function from the ids of its rows to the rows.
Row(name, birthdate) == [name |-> name, birthdate |-> birthdate]
NameValues == {StrV(n) : n \in Names}
BirthdateValues == {None} \cup {DateV(d) : d \in Dates}
Rows == {Row(n, b) : n \in NameValues, b \in BirthdateValues}
AllTables == UNION {[S -> Rows] : S \in SUBSET Ids}
EmptyTable == [i \in {} |-> Row(None, None)]

RECURSIVE SetMax(_)
SetMax(S) == IF S = {} THEN 0
             ELSE LET x == CHOOSE y \in S : TRUE
                      m == SetMax(S \ {x})
                  IN IF x > m THEN x ELSE m

\* INTEGER PRIMARY KEY of a row inserted without an id: largest id + 1.
NextRowId(t) == SetMax(DOMAIN t) + 1

\* name is declared nullable=False, birthdate nullable=True.
SatisfiesConstraints(row) == IsStr(row.name)

PutRow(t, i, row) == [j \in DOMAIN t \cup {i} |-> IF j = i THEN row ELSE t[j]]
DropRow(t, i) == [j \in DOMAIN t \ {i} |-> t[j]]

\* The instance the session loads from row i.
Load(t, i) == Instance(IntV(i), t[i].name, t[i].birthdate, TRUE)

(* ------------------------------- inputs -------------------------------- *)
\* Instances a caller builds by hand (transient) or has got back from an
\* earlier call (persisted: they carry the identity key of a row that
\* existed when they were loaded, which may have changed since).
Transients == {Instance(i, n, b, FALSE) :
                 i \in {None} \cup {IntV(k) : k \in Ids},
                 n \in {Unset, None} \cup NameValues,
                 b \in {Unset} \cup BirthdateValues}
Persisteds == {Instance(IntV(k), n, b, TRUE) :
                 k \in Ids, n \in NameValues, b \in BirthdateValues}
Instances == Transients \cup Persisteds

\* fetch is called on the class or on an instance, with an id argument:
\* omitted (None), a string, or an integer (MaxId + 1 is the id of no row).
Receivers == {NoInstance} \cup {Instance(IntV(k), Unset, Unset, FALSE) : k \in Ids}
IdArgs == {None, StrV("1")} \cup {IntV(k) : k \in 1..(MaxId + 1)}

\* select's keyword filters: "age" is no attribute of the entity.
MaxLimit == 1
FilterKeys == {"id", "name", "birthdate", "age"}
FilterValues(k) == CASE k = "id" -> {IntV(1)}
                     [] k = "name" -> NameValues
                     [] k = "birthdate" -> BirthdateValues
                     [] k = "age" -> {IntV(42)}
Filters == UNION {{f \in [K -> UNION {FilterValues(k) : k \in K}] :
                     \A k \in K : f[k] \in FilterValues(k)} : K \in SUBSET FilterKeys}
Limits == {None} \cup {IntV(n) : n \in 0..MaxLimit}

\* What a statement sent to the database does: it runs, it raises an
\* SQLAlchemyError, or it raises another Exception.
Faults == {"ok", "db", "other"}

(* ------------------------------- state --------------------------------- *)
VARIABLES
    table,       \* committed rows of the Dummies table
    pc,          \* position of each caller in its current call
    call,        \* the call: operation and arguments
    conn,        \* the call's connection: "none", "open", "closed"
    sess,        \* the call's session: "none", "open", "closed"
    held,        \* the session objects the call has created
    obj,         \* the local self / model / selected of the call
    uow,         \* the write staged in the session, not yet committed
    exc,         \* the exception on its way to the caller
    rolledBack,  \* db.rollback() was called in this call
    outcome,     \* "none", "returned" or the kind of the error raised
    ret,         \* the value returned
    before,      \* history: the table when the call was made
    faulted,     \* history: the database failed a statement of the call
    trail,       \* history: the commits and rollbacks of the call, in order
    origin,      \* conversions: the value the conversions started from
    applied,     \* conversions: the conversions applied so far, in order
    value        \* conversions: the result of the last conversion

\* The variables of the active-record calls and those of the conversions.
store == <<table, pc, call, conn, sess, held, obj, uow, exc, rolledBack,
           outcome, ret, before, faulted, trail>>
conv == <<origin, applied, value>>
vars == <<store, conv>>

NoCall == [op |-> "none", receiver |-> NoInstance, id |-> None,
           kwargs |-> <<>>, limit |-> None]
NoWrite == [kind |-> "none", id |-> None, row |-> Row(None, None)]

\* No call is in progress.
StoreInit ==
    /\ table \in AllTables
    /\ pc = [c \in Callers |-> "idle"]
    /\ call = [c \in Callers |-> NoCall]
    /\ conn = [c \in Callers |-> "none"]
    /\ sess = [c \in Callers |-> "none"]
    /\ held = [c \in Callers |-> {}]
    /\ obj = [c \in Callers |-> None]
    /\ uow = [c \in Callers |-> NoWrite]
    /\ exc = [c \in Callers |-> "none"]
    /\ rolledBack = [c \in Callers |-> FALSE]
    /\ outcome = [c \in Callers |-> "none"]
    /\ ret = [c \in Callers |-> None]
    /\ before = [c \in Callers |-> EmptyTable]
    /\ faulted = [c \in Callers |-> FALSE]
    /\ trail = [c \in Callers |-> <<>>]

Init ==
    /\ StoreInit
    /\ origin = None
    /\ applied = <<>>
    /\ value = None

InCall(c) == pc[c] \notin {"idle", "done"}

\* A caller makes a call.
Enter(c, k, first, out) ==
    /\ pc[c] = "idle"
    /\ pc' = [pc EXCEPT ![c] = first]
    /\ call' = [call EXCEPT ![c] = k]
    /\ conn' = [conn EXCEPT ![c] = "none"]
    /\ sess' = [sess EXCEPT ![c] = "none"]
    /\ held' = [held EXCEPT ![c] = {}]
    /\ obj' = [obj EXCEPT ![c] = k.receiver]
    /\ uow' = [uow EXCEPT ![c] = NoWrite]
    /\ exc' = [exc EXCEPT ![c] = "none"]
    /\ rolledBack' = [rolledBack EXCEPT ![c] = FALSE]
    /\ outcome' = [outcome EXCEPT ![c] = out]
    /\ ret' = [ret EXCEPT ![c] = None]
    /\ before' = [before EXCEPT ![c] = table]
    /\ faulted' = [faulted EXCEPT ![c] = FALSE]
    /\ trail' = [trail EXCEPT ![c] = <<>>]
    /\ UNCHANGED <<table, conv>>

\* The locals of caller c that every step sets.
Locals(c, newpc, newobj, newuow, newexc) ==
    /\ pc' = [pc EXCEPT ![c] = newpc]
    /\ obj' = [obj EXCEPT ![c] = newobj]
    /\ uow' = [uow EXCEPT ![c] = newuow]
    /\ exc' = [exc EXCEPT ![c] = newexc]

\* The database ran the statement (f = "ok") or failed it.
Statement(c, f) == faulted' = [faulted EXCEPT ![c] = @ \/ f # "ok"]

\* The call made a call of its session that the history keeps.
Did(c, event) == trail' = [trail EXCEPT ![c] = Append(@, event)]

\* The error an unguarded statement lets through to the caller.
RawError(f) == IF f = "db" THEN "SQLAlchemyError" ELSE "Exception"

\* What a statement outside every try block does: it runs or it raises.
Unguarded == {"ok", "db"}

\* The error kinds of app/common/errors.py.
DomainErrors == {"SavingModelFailed", "UnableToSaveModelInDB", "InvalidModelId",
                 "UnknownModelId", "FetchingModelFailed", "InvalidModelAttribute",
                 "SelectingModelsFailed", "UnableToFetchModelFromDB",
                 "UnableToSelectFromDB", "UnableToDeleteModelFromDB",
                 "UnableToCreateModelFromJSON"}

(* --------------------------- session provider -------------------------- *)
\* Session objects are told apart by their identity.
SessionIds == 1..Cardinality(Callers)

\* Faulty variant: one session of the module serves every call.
SharedSession(objects) == 1

\* Session(bind=connection): a new object, distinct from every object that
\* a call holds.
NewSession(objects) == CHOOSE s \in SessionIds \ objects : \A o \in SessionIds \ objects : s <= o

\* What the generator does with its session and connection when the body
\* of the with-block raises: the code after the yield is not run.
AfterRaise(state) == state

\* What the generator does when the body ends normally: the code after the
\* yield closes the session, then the connection.
AfterBody(state) == IF state = "open" THEN "closed" ELSE state

\* An exception leaves the with-block, if entered, and the call.
Raised(c, kind) ==
    /\ outcome' = [outcome EXCEPT ![c] = kind]
    /\ conn' = [conn EXCEPT ![c] = AfterRaise(conn[c])]
    /\ sess' = [sess EXCEPT ![c] = AfterRaise(sess[c])]
    /\ Locals(c, "done", obj[c], uow[c], kind)

\* The first statement of each operation's with-block.
BodyStart(op) == CASE op = "save" -> "stage"
                   [] op = "fetch" -> "query"
                   [] op = "select" -> "select"
                   [] op = "delete" -> "delete"

\* session(), up to the yield: connect and bind a session.
SessionOpen(c) ==
    /\ pc[c] = "connect"
    /\ \E f \in Unguarded :
         /\ Statement(c, f)
         /\ IF f = "ok"
            THEN /\ conn' = [conn EXCEPT ![c] = "open"]
                 /\ sess' = [sess EXCEPT ![c] = "open"]
                 /\ held' = [held EXCEPT ![c] =
                               @ \cup {NewSession(UNION {held[d] : d \in Callers})}]
                 /\ Locals(c, BodyStart(call[c].op), obj[c], uow[c], exc[c])
                 /\ UNCHANGED outcome
            ELSE Raised(c, RawError(f)) /\ UNCHANGED held
    /\ UNCHANGED <<table, call, rolledBack, ret, before, trail, conv>>

\* db.rollback() in an except clause, and the raise that follows it.
Rollback(c) ==
    /\ pc[c] = "rollback"
    /\ rolledBack' = [rolledBack EXCEPT ![c] = TRUE]
    /\ outcome' = [outcome EXCEPT ![c] = exc[c]]
    /\ conn' = [conn EXCEPT ![c] = AfterRaise(conn[c])]
    /\ sess' = [sess EXCEPT ![c] = AfterRaise(sess[c])]
    /\ Locals(c, "done", obj[c], NoWrite, exc[c])
    /\ Did(c, "rollback")
    /\ UNCHANGED <<table, call, ret, before, faulted, held, conv>>

\* The value the call returns.
ReturnValue(c) == IF call[c].op = "delete" THEN [bool |-> TRUE] ELSE obj[c]

\* The with-block ends and the call returns its value.
Return(c) ==
    /\ pc[c] = "return"
    /\ outcome' = [outcome EXCEPT ![c] = "returned"]
    /\ ret' = [ret EXCEPT ![c] = ReturnValue(c)]
    /\ conn' = [conn EXCEPT ![c] = AfterBody(conn[c])]
    /\ sess' = [sess EXCEPT ![c] = AfterBody(sess[c])]
    /\ Locals(c, "done", obj[c], NoWrite, exc[c])
    /\ UNCHANGED <<table, call, rolledBack, before, faulted, held, trail, conv>>

(* -------------------------------- save --------------------------------- *)
SaveCall(c) ==
    \E e \in Instances :
        /\ IsNone(GetAttr(e, "id")) => SetMax(DOMAIN table) < MaxId
        /\ Enter(c, [NoCall EXCEPT !.op = "save", !.receiver = e], "connect", "none")

\* db.merge(self): the row with self's id, with the attributes set on self
\* copied onto it; a new pending instance when there is no such row.
Merged(t, e) ==
    IF e.id.int \in DOMAIN t
    THEN Instance(e.id,
                  IF IsUnset(e.name) THEN t[e.id.int].name ELSE e.name,
                  IF IsUnset(e.birthdate) THEN t[e.id.int].birthdate ELSE e.birthdate,
                  TRUE)
    ELSE Instance(e.id, GetAttr(e, "name"), GetAttr(e, "birthdate"), FALSE)

\* The column values an instance is written with.
RowOf(e) == Row(GetAttr(e, "name"), GetAttr(e, "birthdate"))

\* Faulty variant: self is added without being merged first.
StagedUnmerged(t, e) == [kind |-> "insert", id |-> GetAttr(e, "id"), row |-> RowOf(e)]
\* The write the session holds after the merge and db.add(self).
Staged(t, e) ==
    IF IsNone(GetAttr(e, "id"))
    THEN [kind |-> "insert", id |-> None, row |-> RowOf(e)]
    ELSE IF e.id.int \notin DOMAIN t
    THEN [kind |-> "insert", id |-> e.id, row |-> RowOf(e)]
    ELSE IF RowOf(Merged(t, e)) # t[e.id.int]
    THEN [kind |-> "update", id |-> e.id, row |-> RowOf(Merged(t, e))]
    ELSE NoWrite

\* save, from the merge to db.add(self).
SaveStage(c) ==
    /\ pc[c] = "stage"
    /\ IF IsNone(GetAttr(obj[c], "id"))
       THEN /\ Locals(c, "commit", obj[c], Staged(table, obj[c]), exc[c])
            /\ UNCHANGED <<conn, sess, outcome, faulted>>
       ELSE \E f \in Unguarded :
              /\ Statement(c, f)
              /\ IF f = "ok"
                 THEN /\ Locals(c, "commit", Merged(table, obj[c]),
                                Staged(table, obj[c]), exc[c])
                      /\ UNCHANGED <<conn, sess, outcome>>
                 ELSE Raised(c, RawError(f))
    /\ UNCHANGED <<table, call, rolledBack, ret, before, held, trail, conv>>

\* The flush of a staged write is accepted by the database.
Accepted(t, w) ==
    CASE w.kind = "none" -> TRUE
      [] w.kind = "insert" -> /\ SatisfiesConstraints(w.row)
                              /\ IsInt(w.id) => w.id.int \notin DOMAIN t
      [] w.kind = "update" -> SatisfiesConstraints(w.row) /\ w.id.int \in DOMAIN t
      [] w.kind = "delete" -> TRUE

\* Faulty variant: the database numbers every row itself.
WrittenIdFresh(t, w) == NextRowId(t)

\* The id of the row a staged write touches.
WrittenId(t, w) == IF IsInt(w.id) THEN w.id.int ELSE NextRowId(t)

\* Faulty variant: the staged write is never committed.
CommittedNothing(t, w) == t

\* The table after the commit of a staged write.
Committed(t, w) ==
    CASE w.kind = "none" -> t
      [] w.kind \in {"insert", "update"} -> PutRow(t, WrittenId(t, w), w.row)
      [] w.kind = "delete" -> DropRow(t, w.id.int)

\* The except clauses of save.
SaveError(f) == IF f = "db" THEN "UnableToSaveModelInDB" ELSE "SavingModelFailed"

\* Faulty variant: a failed commit is tried again.
RetryCommit == "commit"

\* Where save goes on when db.commit() raises: each except clause calls
\* db.rollback() and raises.
AfterFailedCommit == "rollback"

\* save, the try block: db.commit() and its except clauses.
SaveCommit(c) ==
    /\ pc[c] = "commit"
    /\ uow[c].kind = "insert" => WrittenId(table, uow[c]) <= MaxId
    /\ \E f \in Faults :
         /\ Statement(c, f)
         /\ IF f = "ok" /\ Accepted(table, uow[c])
            THEN /\ table' = Committed(table, uow[c])
                 /\ Locals(c, "saved",
                           [obj[c] EXCEPT !.id = IF uow[c].kind = "insert"
                                                 THEN IntV(WrittenId(table, uow[c]))
                                                 ELSE @,
                                          !.persisted = TRUE],
                           NoWrite, exc[c])
                 /\ Did(c, "commit")
            ELSE /\ Locals(c, AfterFailedCommit, obj[c], uow[c],
                           SaveError(IF f = "ok" THEN "db" ELSE f))
                 /\ Did(c, "commit failed")
                 /\ UNCHANGED table
    /\ UNCHANGED <<call, conn, sess, rolledBack, outcome, ret, before, held, conv>>

\* save, after the commit: reading self.id reloads the instance, expired by
\* the commit, from its row.
SaveReload(c) ==
    /\ pc[c] = "saved"
    /\ \E f \in Unguarded :
         /\ Statement(c, f)
         /\ IF f = "ok" /\ obj[c].id.int \in DOMAIN table
            THEN /\ Locals(c, "return", Load(table, obj[c].id.int), uow[c], exc[c])
                 /\ UNCHANGED <<conn, sess, outcome>>
            ELSE Raised(c, RawError("db"))
    /\ UNCHANGED <<table, call, rolledBack, ret, before, held, trail, conv>>

(* -------------------------------- fetch -------------------------------- *)
\* Faulty variant: the query empties the table it reads.
AfterQueryEmptied(t) == EmptyTable

\* The table after db.query(cls) with its filters: a SELECT writes nothing.
AfterQuery(t) == t

\* The id fetch looks up: its id argument (a classmethod has no self).
ResolvedId(receiver, id) == id

\* Faulty variant: the type of the id is not checked.
ValidIdUntyped(id) == ~IsNone(id)

\* fetch's check of the id, before any session is opened.
ValidId(id) == ~(IsNone(id) \/ ~IsInt(id))

FetchCall(c) ==
    \E r \in Receivers, i \in IdArgs :
        LET k == [NoCall EXCEPT !.op = "fetch", !.receiver = r, !.id = i]
        IN IF ValidId(ResolvedId(r, i))
           THEN Enter(c, k, "connect", "none")
           ELSE Enter(c, k, "done", "InvalidModelId")

\* Faulty variant: the SQLAlchemyError clause comes first and catches
\* NoResultFound, a subclass of it.
FetchErrorMisordered(f) == CASE f \in {"noresult", "db"} -> "UnableToFetchModelFromDB"
                             [] f = "other" -> "FetchingModelFailed"

\* The except clauses of fetch: NoResultFound, SQLAlchemyError, Exception.
FetchError(f) == CASE f = "noresult" -> "UnknownModelId"
                   [] f = "db" -> "UnableToFetchModelFromDB"
                   [] f = "other" -> "FetchingModelFailed"

\* Faulty variant: the query is not filtered by the id.
LookupUnfiltered(t, id) == DOMAIN t

\* query(cls).filter_by(id=id): the ids of the rows the query matches.
Lookup(t, id) == {i \in DOMAIN t : i = id}

\* fetch, the try block: the query for the one row with the id.
FetchQuery(c) ==
    /\ pc[c] = "query"
    /\ LET id == ResolvedId(call[c].receiver, call[c].id).int
       IN \E f \in Faults :
            /\ Statement(c, f)
            /\ IF f # "ok"
               THEN Locals(c, "rollback", obj[c], uow[c], FetchError(f))
               ELSE IF Lookup(table, id) = {}
               THEN Locals(c, "rollback", obj[c], uow[c], FetchError("noresult"))
               ELSE IF Cardinality(Lookup(table, id)) > 1
               THEN Locals(c, "rollback", obj[c], uow[c], FetchError("db"))
               ELSE Locals(c, "return",
                           Load(table, CHOOSE i \in Lookup(table, id) : TRUE),
                           uow[c], exc[c])
    /\ table' = AfterQuery(table)
    /\ UNCHANGED <<call, conn, sess, rolledBack, outcome, ret, before, held, trail, conv>>

(* ------------------------------- select -------------------------------- *)
SelectCall(c) ==
    \E kw \in Filters, l \in Limits :
        Enter(c, [NoCall EXCEPT !.op = "select", !.kwargs = kw, !.limit = l],
              "connect", "none")

\* The value of column k in row i.
ColumnValue(t, i, k) == IF k = "id" THEN IntV(i) ELSE t[i][k]

\* Faulty variant: the filters are joined by OR.
MatchesAny(t, i, kw) == \E k \in DOMAIN kw : ColumnValue(t, i, k) = kw[k]

\* filter_by(**kwargs): every filter holds of row i.
Matches(t, i, kw) == \A k \in DOMAIN kw : ColumnValue(t, i, k) = kw[k]

RECURSIVE Ascending(_)
Ascending(S) == IF S = {} THEN <<>>
                ELSE LET m == CHOOSE x \in S : \A y \in S : x <= y
                     IN <<m>> \o Ascending(S \ {m})

\* Faulty variant: the limit is not applied.
Unlimited(seq, l) == seq

\* limit(limit): the first rows, all of them when limit is None.
Limited(seq, l) == IF IsNone(l) \/ l.int >= Len(seq) THEN seq
                   ELSE SubSeq(seq, 1, l.int)

\* Faulty variant: first() instead of all().
SelectedFirst(t, kw, l) ==
    LET ids == Limited(Ascending({i \in DOMAIN t : Matches(t, i, kw)}), IntV(1))
    IN [n \in 1..Len(ids) |-> Load(t, ids[n])]

\* query(cls).filter_by(**kwargs).limit(limit).all(), in storage order.
Selected(t, kw, l) ==
    LET ids == Limited(Ascending({i \in DOMAIN t : Matches(t, i, kw)}), l)
    IN [n \in 1..Len(ids) |-> Load(t, ids[n])]

\* filter_by(**kwargs) finds every key among the entity's attributes.
ValidFilters(kw) == \A k \in DOMAIN kw : k \in Columns

\* Faulty variant: the SQLAlchemyError clause comes first and catches
\* InvalidRequestError, a subclass of it.
SelectErrorMisordered(f) == CASE f \in {"invalid", "db"} -> "UnableToSelectFromDB"
                              [] f = "other" -> "SelectingModelsFailed"

\* The except clauses of select: InvalidRequestError, SQLAlchemyError,
\* Exception.
SelectError(f) == CASE f = "invalid" -> "InvalidModelAttribute"
                    [] f = "db" -> "UnableToSelectFromDB"
                    [] f = "other" -> "SelectingModelsFailed"

\* select, the try block: filter_by rejects an unknown attribute before
\* any statement is sent.
SelectQuery(c) ==
    /\ pc[c] = "select"
    /\ IF ~ValidFilters(call[c].kwargs)
       THEN /\ Raised(c, SelectError("invalid"))
            /\ UNCHANGED faulted
       ELSE \E f \in Faults :
              /\ Statement(c, f)
              /\ IF f = "ok"
                 THEN /\ Locals(c, "return",
                                Selected(table, call[c].kwargs, call[c].limit),
                                uow[c], exc[c])
                      /\ UNCHANGED <<conn, sess, outcome>>
                 ELSE Raised(c, SelectError(f))
    /\ table' = AfterQuery(table)
    /\ UNCHANGED <<call, rolledBack, ret, before, held, trail, conv>>

(* ------------------------------- delete -------------------------------- *)
DeleteCall(c) ==
    \E e \in Instances :
        Enter(c, [NoCall EXCEPT !.op = "delete", !.receiver = e], "connect", "none")

\* The except clauses of delete: errors.py defines no DeletingModelFailed,
\* so naming it raises AttributeError.
DeleteError(f) == IF f = "db" THEN "UnableToDeleteModelFromDB" ELSE "AttributeError"

\* delete, the try block: db.delete(self) refuses an instance without an
\* identity key; db.commit() deletes the row of a persisted one.
DeleteCommit(c) ==
    /\ pc[c] = "delete"
    /\ IF ~obj[c].persisted
       THEN /\ Locals(c, "rollback", obj[c], uow[c], DeleteError("db"))
            /\ UNCHANGED <<table, faulted, trail>>
       ELSE \E f \in Faults :
         /\ Statement(c, f)
         /\ IF f = "ok"
            THEN /\ table' = Committed(table, [NoWrite EXCEPT !.kind = "delete",
                                                              !.id = obj[c].id])
                 /\ Locals(c, "return", obj[c], uow[c], exc[c])
                 /\ Did(c, "commit")
            ELSE /\ Locals(c, "rollback", obj[c], uow[c], DeleteError(f))
                 /\ Did(c, "commit failed")
                 /\ UNCHANGED table
    /\ UNCHANGED <<call, conn, sess, rolledBack, outcome, ret, before, held, conv>>

(* ------------------------------- caller -------------------------------- *)
\* The caller has the outcome of its call: the locals of the call are gone.
Resume(c) ==
    /\ pc[c] = "done"
    /\ pc' = [pc EXCEPT ![c] = "idle"]
    /\ call' = [call EXCEPT ![c] = NoCall]
    /\ conn' = [conn EXCEPT ![c] = "none"]
    /\ sess' = [sess EXCEPT ![c] = "none"]
    /\ held' = [held EXCEPT ![c] = {}]
    /\ obj' = [obj EXCEPT ![c] = None]
    /\ uow' = [uow EXCEPT ![c] = NoWrite]
    /\ exc' = [exc EXCEPT ![c] = "none"]
    /\ rolledBack' = [rolledBack EXCEPT ![c] = FALSE]
    /\ outcome' = [outcome EXCEPT ![c] = "none"]
    /\ ret' = [ret EXCEPT ![c] = None]
    /\ before' = [before EXCEPT ![c] = EmptyTable]
    /\ faulted' = [faulted EXCEPT ![c] = FALSE]
    /\ trail' = [trail EXCEPT ![c] = <<>>]
    /\ UNCHANGED <<table, conv>>

(* ---------------------------- specification ---------------------------- *)
Next ==
    \E c \in Sequential :
        \/ SaveCall(c)
        \/ FetchCall(c)
        \/ SelectCall(c)
        \/ DeleteCall(c)
        \/ SessionOpen(c)
        \/ SaveStage(c)
        \/ SaveCommit(c)
        \/ SaveReload(c)
        \/ FetchQuery(c)
        \/ SelectQuery(c)
        \/ DeleteCommit(c)
        \/ Rollback(c)
        \/ Return(c)
        \/ Resume(c)

Spec == Init /\ [][Next]_vars

(* ------------------------- interleaved callers ------------------------- *)
\* Two callers whose calls interleave step by step, each call on a session
\* of its own.  The calls are save, fetch and select, made with a few
\* arguments only: one instance to insert while the table has fewer than
\* ConcRows rows, one to update, one id to fetch, one filter.
ConcRows == 1
ConcSaved == {Instance(None, StrV("Jon"), Unset, FALSE),
              Instance(IntV(1), StrV("Tom"), Unset, FALSE)}

InitConc == Init /\ table = EmptyTable

NextConc ==
    \E c \in Callers :
        \/ SaveCall(c) /\ call'[c].receiver \in ConcSaved
                       /\ (IsNone(call'[c].receiver.id) =>
                             SetMax(DOMAIN table) < ConcRows)
        \/ FetchCall(c) /\ call'[c].receiver = NoInstance /\ call'[c].id = IntV(1)
        \/ SelectCall(c) /\ call'[c].kwargs = [name |-> StrV("Jon")]
                         /\ IsNone(call'[c].limit)
        \/ SessionOpen(c)
        \/ SaveStage(c)
        \/ SaveCommit(c)
        \/ SaveReload(c)
        \/ FetchQuery(c)
        \/ SelectQuery(c)
        \/ Rollback(c)
        \/ Return(c)
        \/ Resume(c)

SpecConc == InitConc /\ [][NextConc]_vars

(* ----------------------------- conversions ----------------------------- *)
\* A string whose characters matter is spelled out, one character per
\* element; a datetime is a date and a time <<hour, minute, second>>.
TextV(cs) == [text |-> cs]
DateTimeV(d, t) == [datetime |-> <<d, t>>]
IsText(x) == "text" \in DOMAIN x
IsDateValue(x) == "date" \in DOMAIN x
IsDateTimeValue(x) == "datetime" \in DOMAIN x
Times == {<<0, 0, 0>>, <<13, 5, 59>>}

\* The characters of a python str.
Spelling(s) == CASE s = "Jon" -> <<"J", "o", "n">>
                 [] s = "Tom" -> <<"T", "o", "m">>
                 [] OTHER -> <<>>
Chars(x) == IF IsText(x) THEN x.text ELSE Spelling(x.str)

DigitChars == <<"0", "1", "2", "3", "4", "5", "6", "7", "8", "9">>
IsDigit(ch) == \E n \in 1..10 : DigitChars[n] = ch
DigitValue(ch) == (CHOOSE n \in 1..10 : DigitChars[n] = ch) - 1

\* n in decimal, zero-padded to w characters.
RECURSIVE Padded(_, _)
Padded(n, w) == IF w = 0 THEN <<>>
                ELSE Padded(n \div 10, w - 1) \o <<DigitChars[(n % 10) + 1]>>

\* The number a run of digits spells.
RECURSIVE Number(_)
Number(cs) == IF cs = <<>> THEN 0
              ELSE 10 * Number(SubSeq(cs, 1, Len(cs) - 1)) + DigitValue(cs[Len(cs)])

\* Faulty variant: the fields are not zero-padded.
IsoUnpadded(x) ==
    LET d == IF IsDateValue(x) THEN x.date ELSE x.datetime[1]
    IN Padded(d[1], 4) \o <<"-">> \o Padded(d[2], 1) \o <<"-">> \o Padded(d[3], 1)

\* date.isoformat() and datetime.isoformat(): YYYY-MM-DD, and for a
\* datetime THH:MM:SS after it.
IsoFormat(x) ==
    LET d == IF IsDateValue(x) THEN x.date ELSE x.datetime[1]
        day == Padded(d[1], 4) \o <<"-">> \o Padded(d[2], 2) \o <<"-">> \o Padded(d[3], 2)
    IN IF IsDateValue(x) THEN day
       ELSE LET t == x.datetime[2]
            IN day \o <<"T">> \o Padded(t[1], 2) \o <<":">> \o Padded(t[2], 2)
                   \o <<":">> \o Padded(t[3], 2)

AllDigits(cs) == \A i \in 1..Len(cs) : IsDigit(cs[i])
DaysIn(y, m) == IF m \in {4, 6, 9, 11} THEN 30
                ELSE IF m # 2 THEN 31
                ELSE IF y % 4 = 0 /\ (y % 100 # 0 \/ y % 400 = 0) THEN 29 ELSE 28

\* The text has the form YYYY-MM-DD and names a day of the calendar.
IsIsoDate(cs) ==
    /\ Len(cs) = 10
    /\ cs[5] = "-" /\ cs[8] = "-"
    /\ AllDigits(SubSeq(cs, 1, 4) \o SubSeq(cs, 6, 7) \o SubSeq(cs, 9, 10))
    /\ Number(SubSeq(cs, 1, 4)) >= 1
    /\ Number(SubSeq(cs, 6, 7)) \in 1..12
    /\ Number(SubSeq(cs, 9, 10)) \in
           1..DaysIn(Number(SubSeq(cs, 1, 4)), Number(SubSeq(cs, 6, 7)))

\* The text has the form HH:MM:SS and names a time of the day.
IsIsoTime(cs) ==
    /\ Len(cs) = 8
    /\ cs[3] = ":" /\ cs[6] = ":"
    /\ AllDigits(SubSeq(cs, 1, 2) \o SubSeq(cs, 4, 5) \o SubSeq(cs, 7, 8))
    /\ Number(SubSeq(cs, 1, 2)) \in 0..23
    /\ Number(SubSeq(cs, 4, 5)) \in 0..59
    /\ Number(SubSeq(cs, 7, 8)) \in 0..59

\* A date text, or a date text, one separator character and a time text.
IsIsoDateTime(cs) ==
    \/ IsIsoDate(cs)
    \/ /\ Len(cs) = 19
       /\ IsIsoDate(SubSeq(cs, 1, 10))
       /\ IsIsoTime(SubSeq(cs, 12, 19))

DateOf(cs) == <<Number(SubSeq(cs, 1, 4)), Number(SubSeq(cs, 6, 7)),
                Number(SubSeq(cs, 9, 10))>>
TimeOf(cs) == <<Number(SubSeq(cs, 1, 2)), Number(SubSeq(cs, 4, 5)),
                Number(SubSeq(cs, 7, 8))>>

\* The result of a function: a value, or the exception it raises.
Returned(v) == [value |-> v]
Raises(kind) == [raised |-> kind]
IsRaised(r) == "raised" \in DOMAIN r

\* date.fromisoformat(value) and datetime.fromisoformat(value).
DateFromIso(cs) == IF IsIsoDate(cs) THEN Returned(DateV(DateOf(cs)))
                   ELSE Raises("ValueError")
DateTimeFromIso(cs) ==
    IF ~IsIsoDateTime(cs) THEN Raises("ValueError")
    ELSE Returned(DateTimeV(DateOf(SubSeq(cs, 1, 10)),
                            IF Len(cs) = 19 THEN TimeOf(SubSeq(cs, 12, 19))
                            ELSE <<0, 0, 0>>))

\* A python dict, and a str holding a JSON text as a sequence of tokens.
DictV(f) == [dict |-> f]
JsonV(tokens) == [json |-> tokens]
IsDict(x) == "dict" \in DOMAIN x
IsInstance(x) == "persisted" \in DOMAIN x

\* The order in which the keys of a dict are visited.
KeyOrder == <<"_sa_instance_state", "id", "name", "birthdate", "age">>
KeyIndex(k) == CHOOSE n \in 1..Len(KeyOrder) : KeyOrder[n] = k
FirstKey(S) == CHOOSE k \in S : \A j \in S : KeyIndex(k) <= KeyIndex(j)

\* self.__dict__: the attributes set on the instance and the state the
\* mapper keeps on it.
InstanceDict(inst) ==
    [k \in {a \in Columns : ~IsUnset(inst[a])} \cup {"_sa_instance_state"} |->
        IF k = "_sa_instance_state" THEN [state |-> inst.persisted] ELSE inst[k]]

\* Faulty variant: no key is held to be private.
NothingPrivate(key) == FALSE

\* key.startswith('_')
StartsWithUnderscore(key) == key \in {"_sa_instance_state"}

\* to_dict
ToDict(inst) ==
    LET dict == InstanceDict(inst)
    IN DictV([k \in {key \in DOMAIN dict : ~StartsWithUnderscore(key)} |-> dict[k]])

\* JSON tokens.
Punct(p) == [punct |-> p]
JString(x) == [jstring |-> x]
JNumber(n) == [jnumber |-> n]
JNull == [jnull |-> TRUE]
IsJString(tok) == "jstring" \in DOMAIN tok
IsJScalar(tok) == DOMAIN tok \cap {"jstring", "jnumber", "jnull"} # {}

\* json.dumps of a value: a str, an int or None; anything else is not
\* serializable.
DumpValue(v) == IF IsNone(v) THEN Returned(JNull)
                ELSE IF IsInt(v) THEN Returned(JNumber(v.int))
                ELSE IF IsStr(v) \/ IsText(v) THEN Returned(JString(v))
                ELSE Raises("TypeError")

RECURSIVE DumpMembers(_, _)
DumpMembers(f, keys) ==
    IF keys = {} THEN <<>>
    ELSE LET k == FirstKey(keys)
         IN <<JString(StrV(k)), Punct(":"), DumpValue(f[k]).value>>
            \o (IF keys = {k} THEN <<>> ELSE <<Punct(",")>>)
            \o DumpMembers(f, keys \ {k})

\* json.dumps of a dict.
Dumps(f) ==
    IF \E k \in DOMAIN f : IsRaised(DumpValue(f[k])) THEN Raises("TypeError")
    ELSE Returned(JsonV(<<Punct("{")>> \o DumpMembers(f, DOMAIN f) \o <<Punct("}")>>))

\* to_json
ToJson(inst) ==
    LET dict == InstanceDict(inst)
        to_convert == [k \in {key \in DOMAIN dict : ~StartsWithUnderscore(key)} |->
                         IF IsDateValue(dict[k]) \/ IsDateTimeValue(dict[k])
                         THEN TextV(IsoFormat(dict[k]))
                         ELSE dict[k]]
    IN Dumps(to_convert)

\* The python value of a scalar token.
LoadValue(tok) == IF IsJString(tok) THEN tok.jstring
                  ELSE IF "jnumber" \in DOMAIN tok THEN IntV(tok.jnumber)
                  ELSE None

\* The members of an object, after its opening brace: key, colon, value,
\* then a comma and more members, or nothing.
RECURSIVE LoadMembers(_)
LoadMembers(m) ==
    IF Len(m) < 3 \/ ~IsJString(m[1]) \/ ~("str" \in DOMAIN m[1].jstring)
       \/ m[2] # Punct(":") \/ ~IsJScalar(m[3])
    THEN Raises("JSONDecodeError")
    ELSE LET k == m[1].jstring.str
             v == LoadValue(m[3])
         IN IF Len(m) = 3 THEN Returned([j \in {k} |-> v])
            ELSE IF m[4] # Punct(",") THEN Raises("JSONDecodeError")
            ELSE LET rest == LoadMembers(SubSeq(m, 5, Len(m)))
                 IN IF IsRaised(rest) THEN rest
                    ELSE Returned([j \in {k} \cup DOMAIN rest.value |->
                                     IF j \in DOMAIN rest.value THEN rest.value[j]
                                     ELSE v])

\* json.loads of a text: a scalar, or an object of scalars.
Loads(t) ==
    IF Len(t) = 1 /\ IsJScalar(t[1]) THEN Returned(LoadValue(t[1]))
    ELSE IF Len(t) < 2 \/ t[1] # Punct("{") \/ t[Len(t)] # Punct("}")
    THEN Raises("JSONDecodeError")
    ELSE IF Len(t) = 2 THEN Returned(DictV(<<>>))
    ELSE LET members == LoadMembers(SubSeq(t, 2, Len(t) - 1))
         IN IF IsRaised(members) THEN members ELSE Returned(DictV(members.value))

\* The names the body of is_date can read: its parameters and the globals
\* of utils.py.
IsDateNames == {"date_string", "fuzzy", "logging", "os", "WatchedFileHandler",
                "parse", "Config", "log_handler", "is_date"}

\* is_date(value): parse(string, fuzzy=fuzzy) reads the name string; the
\* parser takes a str only and, of the strings here, accepts the ISO texts.
IsDate(x) ==
    IF "string" \notin IsDateNames THEN Raises("NameError")
    ELSE IF ~(IsStr(x) \/ IsText(x)) THEN Raises("TypeError")
    ELSE Returned(IsIsoDateTime(Chars(x)))

\* from_dict, the body of the loop: the value stored under a key.
ConvertedValue(v) ==
    LET detected == IsDate(v)
    IN IF IsRaised(detected) THEN detected
       ELSE IF ~detected.value THEN Returned(v)
       ELSE IF \E i \in 1..Len(Chars(v)) : Chars(v)[i] = "T"
       THEN DateTimeFromIso(Chars(v))
       ELSE DateFromIso(Chars(v))

\* cls(**to_convert): the declarative constructor takes the attributes of
\* the class only.
Construct(kw) ==
    IF ~(DOMAIN kw \subseteq Columns) THEN Raises("TypeError")
    ELSE Returned(Instance(IF "id" \in DOMAIN kw THEN kw["id"] ELSE Unset,
                           IF "name" \in DOMAIN kw THEN kw["name"] ELSE Unset,
                           IF "birthdate" \in DOMAIN kw THEN kw["birthdate"] ELSE Unset,
                           FALSE))

\* from_dict
FromDict(x) ==
    IF ~IsDict(x) THEN Raises("AttributeError")
    ELSE LET failing == {k \in DOMAIN x.dict : IsRaised(ConvertedValue(x.dict[k]))}
         IN IF failing # {} THEN ConvertedValue(x.dict[FirstKey(failing)])
            ELSE Construct([k \in DOMAIN x.dict |-> ConvertedValue(x.dict[k]).value])

\* Faulty variant: the decode error is not caught.
FromJsonUncaught(x) ==
    IF IsRaised(Loads(x.json)) THEN Loads(x.json) ELSE FromDict(Loads(x.json).value)

\* from_json
FromJson(x) ==
    IF IsRaised(Loads(x.json)) THEN Raises("UnableToCreateModelFromJSON")
    ELSE FromDict(Loads(x.json).value)

\* The characters of the attribute names, in the order of their code
\* points, and the spelling of the names.
Alphabet == <<"_", "a", "b", "c", "d", "e", "f", "g", "h", "i", "j", "k", "l", "m",
              "n", "o", "p", "q", "r", "s", "t", "u", "v", "w", "x", "y", "z">>
KeySpelling(k) ==
    CASE k = "id" -> <<"i", "d">>
      [] k = "name" -> <<"n", "a", "m", "e">>
      [] k = "birthdate" -> <<"b", "i", "r", "t", "h", "d", "a", "t", "e">>
      [] k = "_sa_instance_state" ->
           <<"_", "s", "a", "_", "i", "n", "s", "t", "a", "n", "c", "e", "_",
             "s", "t", "a", "t", "e">>

\* a < b on str: the first character that differs decides, a proper
\* prefix comes first.
RECURSIVE Precedes(_, _)
Precedes(a, b) ==
    IF b = <<>> THEN FALSE
    ELSE IF a = <<>> THEN TRUE
    ELSE IF a[1] # b[1]
    THEN LET ord(ch) == CHOOSE n \in 1..Len(Alphabet) : Alphabet[n] = ch
         IN ord(a[1]) < ord(b[1])
    ELSE Precedes(Tail(a), Tail(b))

RECURSIVE Ordered(_)
Ordered(S) ==
    IF S = {} THEN <<>>
    ELSE LET first == CHOOSE k \in S :
                        \A j \in S \ {k} : Precedes(KeySpelling(k), KeySpelling(j))
         IN <<first>> \o Ordered(S \ {first})

\* Faulty variant: the items are left in the order of their assignment.
Unsorted(keys) == keys

\* sorted(self.__dict__.items()): the keys are distinct, so the items are
\* ordered by their keys.
Sorted(keys) == Ordered({keys[n] : n \in 1..Len(keys)})

\* n in decimal.
RECURSIVE Decimal(_)
Decimal(n) == IF n < 10 THEN <<DigitChars[n + 1]>>
              ELSE Decimal(n \div 10) \o <<DigitChars[(n % 10) + 1]>>

\* repr(val)
PyRepr(v) ==
    IF IsNone(v) THEN <<"None">>
    ELSE IF IsInt(v) THEN Decimal(v.int)
    ELSE IF IsStr(v) \/ IsText(v) THEN <<"'">> \o Chars(v) \o <<"'">>
    ELSE IF "state" \in DOMAIN v THEN <<"<sqlalchemy.orm.state.InstanceState object>">>
    ELSE IF IsDateValue(v)
    THEN <<"datetime.date(">> \o Decimal(v.date[1]) \o <<", ">> \o Decimal(v.date[2])
         \o <<", ">> \o Decimal(v.date[3]) \o <<")">>
    ELSE LET d == v.datetime[1]
             t == v.datetime[2]
         IN <<"datetime.datetime(">> \o Decimal(d[1]) \o <<", ">> \o Decimal(d[2])
            \o <<", ">> \o Decimal(d[3]) \o <<", ">> \o Decimal(t[1])
            \o <<", ">> \o Decimal(t[2])
            \o (IF t[3] = 0 THEN <<>> ELSE <<", ">> \o Decimal(t[3])) \o <<")">>

\* ', '.join of attribute=repr(value) over the keys.
RECURSIVE Joined(_, _)
Joined(dict, keys) ==
    IF keys = <<>> THEN <<>>
    ELSE <<Head(keys), "=">> \o PyRepr(dict[Head(keys)])
         \o (IF Len(keys) = 1 THEN <<>> ELSE <<", ">>)
         \o Joined(dict, Tail(keys))

\* self.__class__.__name__
ClassName == "Dummy"

\* __repr__ of an instance whose __dict__ was filled in the given order.
Repr(x) ==
    LET keys == SelectSeq(Sorted(x.order), LAMBDA k : ~StartsWithUnderscore(k))
    IN TextV(<<ClassName, "(">> \o Joined(InstanceDict(x.inst), keys) \o <<")">>)

\* An identifier of a class body is spelled in parts, "__" standing for
\* two underscores: __constraints is <<"__", "constraints">>.  The compiler
\* rewrites an identifier of a class body that starts with two underscores
\* and does not end with two: the name of the class is put in front of it.
Mangle(class, name) ==
    IF Head(name) = "__" /\ name[Len(name)] # "__"
    THEN <<"_", class>> \o name
    ELSE name

\* Default options of every table.
TableDefaults == [options |-> [mysql_engine |-> "InnoDB", mysql_charset |-> "utf8",
                               mysql_collate |-> "utf8_general_ci"]]

\* The attributes that the body of Base assigns.
BaseNamespace ==
    LET args == Mangle("Base", <<"__", "table_args">>)
        constraints == Mangle("Base", <<"__", "constraints">>)
    IN [n \in {args, constraints} |-> IF n = args THEN TableDefaults ELSE None]

\* The attributes that the body of an entity type assigns.
Namespace(entity) ==
    LET names == {Mangle(entity.class, d.name) : d \in entity.body}
    IN [n \in names |-> (CHOOSE d \in entity.body : Mangle(entity.class, d.name) = n).value]

\* cls.name: the attribute of the entity type, else that of Base.
ClassAttr(entity, name) ==
    IF name \in DOMAIN Namespace(entity) THEN Namespace(entity)[name]
    ELSE BaseNamespace[name]

\* __table_args__, written in the body of Base.
TableArgs(entity) ==
    LET constraints == ClassAttr(entity, Mangle("Base", <<"__", "constraints">>))
        t_args == IF ~IsNone(constraints) THEN <<constraints>> ELSE <<>>
    IN t_args \o <<ClassAttr(entity, Mangle("Base", <<"__", "table_args">>))>>

\* The values the conversions are applied to: instances, dicts and JSON
\* texts, well-formed and not.
ConvInstances ==
    {Instance(i, n, b, FALSE) :
        i \in {Unset, None, IntV(1)},
        n \in {Unset} \cup NameValues,
        b \in {Unset} \cup BirthdateValues
               \cup {DateTimeV(d, t) : d \in Dates, t \in Times}}
    \cup Persisteds

\* An instance with the order in which its attributes were assigned; the
\* state of the mapper is set first.
Assigned ==
    LET orderings(S) ==
            {p \in [1..Cardinality(S) -> S] :
                \A i, j \in 1..Cardinality(S) : p[i] = p[j] => i = j}
    IN UNION {{[inst |-> e, order |-> <<"_sa_instance_state">> \o p] :
                 p \in orderings({a \in Columns : ~IsUnset(e[a])})} :
              e \in ConvInstances}

DateTexts == {<<"1", "9", "8", "6", "-", "0", "4", "-", "0", "4">>,
              <<"1", "9", "8", "6", "-", "0", "4", "-", "0", "4", "T",
                "0", "0", ":", "0", "0", ":", "0", "0">>}
DictValues(k) == CASE k = "id" -> {IntV(1)}
                   [] k = "name" -> NameValues
                   [] k = "birthdate" -> {None} \cup {TextV(cs) : cs \in DateTexts}
                   [] k = "age" -> {IntV(42)}
ConvDicts ==
    {DictV(f) : f \in UNION {{g \in [K -> UNION {DictValues(k) : k \in K}] :
                                 \A k \in K : g[k] \in DictValues(k)} :
                               K \in SUBSET {"id", "name", "birthdate", "age"}}}

\* The texts json.dumps gives for the dicts, and a scalar.
WellFormed == {Dumps(d.dict).value : d \in ConvDicts} \cup {JsonV(<<JNull>>)}

\* Objects cut short, an object with a trailing comma and one without its
\* colon.
Truncated == UNION {{JsonV(SubSeq(w.json, 1, n)) : n \in 0..(Len(w.json) - 1)} :
                      w \in WellFormed}
Malformed ==
    Truncated \cup
    {JsonV(<<Punct("{"), JString(StrV("name")), Punct(":"), JString(StrV("Jon")),
             Punct(","), Punct("}")>>),
     JsonV(<<Punct("{"), JString(StrV("name")), JString(StrV("Jon")), Punct("}")>>)}

\* Entity types: what their body assigns besides the columns, each name
\* at most once.
Constraints == {[index |-> "name"], [unique |-> "name"]}
Declarations ==
    {[name |-> <<"__", "constraints">>, value |-> v] : v \in Constraints \cup {None}}
    \cup {[name |-> <<"_", "Base", "__", "constraints">>, value |-> v] : v \in Constraints}
    \cup {[name |-> <<"__", "table_args">>,
           value |-> [options |-> [mysql_engine |-> "MyISAM"]]]}
EntityTypes ==
    {[class |-> n, body |-> b] :
        n \in {"Dummy", "Order"},
        b \in {{}} \cup {{d} : d \in Declarations}
               \cup {b \in {{d, e} : d, e \in Declarations} :
                        \A d, e \in b : d.name = e.name => d = e}}

ConvInputs ==
    ConvInstances \cup Assigned \cup ConvDicts \cup WellFormed \cup Malformed
    \cup EntityTypes

\* The conversions a caller chains.
MaxApplied == 2

InitConv ==
    /\ StoreInit /\ table = EmptyTable
    /\ origin \in ConvInputs
    /\ applied = <<>>
    /\ value = origin

\* What the caller holds after a conversion: its value or its exception.
Result(r) == IF IsRaised(r) THEN r ELSE r.value

Convert(name, result) ==
    /\ Len(applied) < MaxApplied
    /\ applied' = Append(applied, name)
    /\ value' = result
    /\ UNCHANGED <<origin, store>>

CallToDict == IsInstance(value) /\ Convert("to_dict", ToDict(value))
CallToJson == IsInstance(value) /\ Convert("to_json", Result(ToJson(value)))
CallFromDict == IsDict(value) /\ Convert("from_dict", Result(FromDict(value)))
CallFromJson == "json" \in DOMAIN value /\ Convert("from_json", Result(FromJson(value)))

CallRepr == "order" \in DOMAIN value /\ Convert("repr", Repr(value))

\* The table of an entity type is defined.
DefineTable ==
    "body" \in DOMAIN value /\ Convert("__table_args__", [tuple |-> TableArgs(value)])

NextConv ==
    CallToDict \/ CallToJson \/ CallFromDict \/ CallFromJson \/ CallRepr \/ DefineTable

SpecConv == InitConv /\ [][NextConv]_vars

(* ------------------------------- claims -------------------------------- *)
Attributes == {"name", "birthdate"}
Done(c, op) == pc[c] = "done" /\ call[c].op = op

\* C1: every call that has finished, whether it returned or raised, has
\* closed the session and the connection the session provider opened.
C1_ReleasedOnEveryExit ==
    \A c \in Callers :
        pc[c] = "done" => sess[c] # "open" /\ conn[c] # "open"

\* C2: save of an instance without id whose attributes satisfy the
\* constraints returns, when the database fails no statement; when it
\* returns, the instance returned has an integer id that no row had before
\* the call, the table is the table before the call plus one row with
\* that id, and the row read back under that id has the attributes of e.
C2_SaveInsertsNewRow ==
    \A c \in Callers :
        LET e == call[c].receiver
        IN (Done(c, "save") /\ IsNone(GetAttr(e, "id"))) =>
             /\ (IsStr(GetAttr(e, "name")) /\ ~faulted[c]) => outcome[c] = "returned"
             /\ outcome[c] = "returned" =>
                  /\ IsInt(ret[c].id)
                  /\ ret[c].id.int \notin DOMAIN before[c]
                  /\ DOMAIN table = DOMAIN before[c] \cup {ret[c].id.int}
                  /\ \A i \in DOMAIN before[c] : table[i] = before[c][i]
                  /\ \A k \in Attributes :
                       /\ table[ret[c].id.int][k] = GetAttr(e, k)
                       /\ ret[c][k] = GetAttr(e, k)

C2_Witness ==
    \E c \in Callers :
        /\ Done(c, "save") /\ IsNone(GetAttr(call[c].receiver, "id"))
        /\ outcome[c] = "returned"
        /\ before[c] # EmptyTable
        /\ IsUnset(call[c].receiver.birthdate)

\* C3: save of an instance whose id is the id of a row returns, when the
\* database fails no statement and the name is not set to None; when it
\* returns, the table has the same ids as before the call, the row with
\* the id carries every attribute value set on e, the other rows are as
\* before, and the instance returned has the id of e.
C3_SaveUpdatesInPlace ==
    \A c \in Callers :
        LET e == call[c].receiver
        IN (Done(c, "save") /\ IsInt(e.id) /\ e.id.int \in DOMAIN before[c]) =>
             /\ (~IsNone(e.name) /\ ~faulted[c]) => outcome[c] = "returned"
             /\ outcome[c] = "returned" =>
                  /\ DOMAIN table = DOMAIN before[c]
                  /\ \A k \in Attributes :
                       ~IsUnset(e[k]) => table[e.id.int][k] = e[k]
                  /\ \A i \in DOMAIN before[c] \ {e.id.int} : table[i] = before[c][i]
                  /\ ret[c].id = e.id

C3_Witness ==
    \E c \in Callers :
        /\ Done(c, "save") /\ IsInt(call[c].receiver.id)
        /\ call[c].receiver.id.int \in DOMAIN before[c]
        /\ outcome[c] = "returned"
        /\ table # before[c]
        /\ Cardinality(DOMAIN before[c]) > 1

\* C4: a save that got its session and ended with an error has rolled its
\* transaction back and has left the table as it was before the call.
C4_FailedSaveRolledBack ==
    \A c \in Callers :
        (Done(c, "save") /\ sess[c] # "none" /\ outcome[c] # "returned") =>
            rolledBack[c] /\ table = before[c]

\* C5: a save whose commit is rejected raises SavingModelFailed.
C5_RejectedCommitRaisesSavingModelFailed ==
    \A c \in Callers :
        (Done(c, "save") /\ rolledBack[c]) => outcome[c] = "SavingModelFailed"

C7_UnknownIdRaises ==
    \A c \in Callers :
        (/\ Done(c, "fetch") /\ IsInt(call[c].id)
         /\ call[c].id.int \notin DOMAIN before[c]
         /\ ~faulted[c]) =>
            outcome[c] = "UnknownModelId" /\ rolledBack[c]

C7_Witness ==
    \E c \in Callers :
        /\ Done(c, "fetch") /\ IsInt(call[c].id)
        /\ call[c].id.int \notin DOMAIN before[c]
        /\ before[c] # EmptyTable
        /\ outcome[c] = "UnknownModelId"

\* C8: a fetch of an integer id that a row has, the database failing no
\* statement, returns an instance with that id and that row's values.
C8_FetchReturnsRow ==
    \A c \in Callers :
        (/\ Done(c, "fetch") /\ IsInt(call[c].id)
         /\ call[c].id.int \in DOMAIN before[c]
         /\ ~faulted[c]) =>
            /\ outcome[c] = "returned"
            /\ ret[c].id = call[c].id
            /\ \A k \in Attributes : ret[c][k] = before[c][call[c].id.int][k]

C8_Witness ==
    \E c \in Callers :
        /\ Done(c, "fetch") /\ IsInt(call[c].id)
        /\ call[c].id.int \in DOMAIN before[c]
        /\ Cardinality(DOMAIN before[c]) > 1
        /\ outcome[c] = "returned"

\* C9: a fetch on an instance, without id argument, looks up the id of
\* the instance: when that id is the id of a row, the row is returned.
C9_FetchUsesInstanceId ==
    \A c \in Callers :
        (/\ Done(c, "fetch") /\ IsNone(call[c].id)
         /\ "id" \in DOMAIN call[c].receiver
         /\ call[c].receiver.id.int \in DOMAIN before[c]
         /\ ~faulted[c]) =>
            outcome[c] = "returned" /\ ret[c].id = call[c].receiver.id

\* C10: a select with a filter key that is no attribute of the entity,
\* once it has its session, raises InvalidModelAttribute, whatever the
\* table, the other filters and the limit.
C10_UnknownFilterRaises ==
    \A c \in Callers :
        (/\ Done(c, "select")
         /\ \E k \in DOMAIN call[c].kwargs : k \notin {"id", "name", "birthdate"}
         /\ sess[c] # "none") =>
            outcome[c] = "InvalidModelAttribute"

C10_Witness ==
    \E c \in Callers :
        /\ Done(c, "select")
        /\ {"age", "name"} \subseteq DOMAIN call[c].kwargs
        /\ ~IsNone(call[c].limit)
        /\ before[c] # EmptyTable
        /\ outcome[c] = "InvalidModelAttribute"

\* The ids of the rows of t whose columns equal every filter of kw.
Satisfying(t, kw) ==
    {i \in DOMAIN t :
        \A k \in DOMAIN kw : (IF k = "id" THEN IntV(i) ELSE t[i][k]) = kw[k]}

\* The filter keys of the call are all attributes of the entity.
OnlyAttributes(c) == DOMAIN call[c].kwargs \subseteq {"id", "name", "birthdate"}

\* C11: a select whose filters are all attributes of the entity and that
\* no row satisfies, the database failing no statement, returns the empty
\* list: it neither raises nor returns None.
C11_NoMatchReturnsEmptyList ==
    \A c \in Callers :
        (/\ Done(c, "select") /\ OnlyAttributes(c)
         /\ ~faulted[c]
         /\ Satisfying(before[c], call[c].kwargs) = {}) =>
            outcome[c] = "returned" /\ ret[c] = <<>>

C11_Witness ==
    \E c \in Callers :
        /\ Done(c, "select") /\ OnlyAttributes(c)
        /\ Cardinality(DOMAIN call[c].kwargs) > 1
        /\ before[c] # EmptyTable
        /\ Satisfying(before[c], call[c].kwargs) = {}
        /\ outcome[c] = "returned" /\ Len(ret[c]) = 0

\* C12: a select with valid filters and limit N, the database failing no
\* statement, returns at most N instances, each of a row that satisfies
\* the filters, and exactly N of them when at least N rows satisfy them.
C12_LimitBoundsResult ==
    \A c \in Callers :
        (/\ Done(c, "select") /\ OnlyAttributes(c)
         /\ ~faulted[c]
         /\ IsInt(call[c].limit)) =>
            LET matching == Satisfying(before[c], call[c].kwargs)
                N == call[c].limit.int
            IN /\ outcome[c] = "returned"
               /\ Len(ret[c]) <= N
               /\ \A n \in 1..Len(ret[c]) : ret[c][n].id.int \in matching
               /\ Cardinality(matching) >= N => Len(ret[c]) = N

C12_Witness ==
    \E c \in Callers :
        /\ Done(c, "select") /\ OnlyAttributes(c)
        /\ call[c].kwargs # <<>>
        /\ IsInt(call[c].limit) /\ call[c].limit.int > 0
        /\ Cardinality(Satisfying(before[c], call[c].kwargs)) > call[c].limit.int
        /\ outcome[c] = "returned" /\ Len(ret[c]) = call[c].limit.int

\* C13: a select with valid filters and no limit, the database failing no
\* statement, returns one instance per row that satisfies every filter,
\* carrying that row's id and values, and nothing else; without filters
\* it returns every row.
C13_SelectReturnsExactlyMatching ==
    \A c \in Callers :
        (/\ Done(c, "select") /\ OnlyAttributes(c)
         /\ ~faulted[c]
         /\ IsNone(call[c].limit)) =>
            LET matching == Satisfying(before[c], call[c].kwargs)
            IN /\ outcome[c] = "returned"
               /\ Len(ret[c]) = Cardinality(matching)
               /\ {ret[c][n].id.int : n \in 1..Len(ret[c])} = matching
               /\ \A n \in 1..Len(ret[c]) : \A k \in Attributes :
                     ret[c][n][k] = before[c][ret[c][n].id.int][k]
               /\ call[c].kwargs = <<>> => Len(ret[c]) = Cardinality(DOMAIN before[c])

C13_Witness ==
    \E c \in Callers :
        /\ Done(c, "select") /\ IsNone(call[c].limit)
        /\ DOMAIN call[c].kwargs = {"name", "birthdate"}
        /\ Satisfying(before[c], call[c].kwargs) \notin {{}, DOMAIN before[c]}
        /\ outcome[c] = "returned" /\ Len(ret[c]) > 0

\* C14: a call in which the database failed a statement ends with one of
\* the domain error kinds: no low-level exception reaches the caller.
C14_StorageErrorsWrapped ==
    \A c \in Callers :
        (pc[c] = "done" /\ faulted[c]) => outcome[c] \in DomainErrors

\* The positions of a call at which its next statement uses the session.
UsesSession(c) ==
    pc[c] \in {"stage", "commit", "saved", "query", "select", "rollback"}

\* C15: a call creates at most one session; no session object is held by
\* two calls, also when the calls of two callers interleave; a call that
\* is about to use its session holds one, and that session is open.
C15_SessionPerCall ==
    /\ \A c \in Callers : Cardinality(held[c]) <= 1
    /\ \A c, d \in Callers : c # d => held[c] \cap held[d] = {}
    /\ \A c \in Callers : UsesSession(c) => held[c] # {} /\ sess[c] = "open"
    /\ \A c \in Callers : pc[c] = "connect" => held[c] = {} /\ sess[c] = "none"

C15_Witness ==
    /\ \A c \in Callers : UsesSession(c) /\ held[c] # {}
    /\ \E c, d \in Callers : call[c].op = "save" /\ call[d].op = "fetch"

\* C16: from_json of a text that is no valid JSON raises
\* UnableToCreateModelFromJSON, no other exception, and gives no instance.
C16_MalformedJsonRaises ==
    (applied = <<"from_json">> /\ origin \in Malformed) =>
        value = [raised |-> "UnableToCreateModelFromJSON"]

C16_Witness ==
    /\ applied = <<"from_json">>
    /\ origin \in Truncated /\ Len(origin.json) >= 4
    /\ value = [raised |-> "UnableToCreateModelFromJSON"]

\* The value from_dict is to store for v: the datetime of a date text
\* with a T, the date of a date text without, v itself otherwise.
Parsed(v) ==
    IF ~("text" \in DOMAIN v /\ IsIsoDateTime(v.text)) THEN v
    ELSE IF \E i \in 1..Len(v.text) : v.text[i] = "T"
    THEN [datetime |-> <<DateOf(SubSeq(v.text, 1, 10)), TimeOf(SubSeq(v.text, 12, 19))>>]
    ELSE [date |-> DateOf(v.text)]

\* C17: from_dict of a mapping over the attributes of the entity returns
\* an instance that holds, under each key, the parsed datetime or date
\* when the value is a date text, and the value itself otherwise.
C17_FromDictParsesDates ==
    (applied = <<"from_dict">> /\ DOMAIN origin.dict \subseteq {"id", "name", "birthdate"}) =>
        /\ "persisted" \in DOMAIN value
        /\ \A k \in DOMAIN origin.dict : value[k] = Parsed(origin.dict[k])

\* The attributes of an instance that hold a date or a datetime.
DateAttributes(inst) ==
    {k \in {"id", "name", "birthdate"} : DOMAIN inst[k] \cap {"date", "datetime"} # {}}

\* C18: from_dict(e.to_dict()) has the attribute values of e when e has
\* no date or datetime attribute, and from_json(e.to_json()) has the
\* date and datetime values of e when e has some.
C18_RoundTrip ==
    /\ (applied = <<"to_dict", "from_dict">> /\ DateAttributes(origin) = {}) =>
          /\ "persisted" \in DOMAIN value
          /\ \A k \in {"id", "name", "birthdate"} : value[k] = origin[k]
    /\ (applied = <<"to_json", "from_json">> /\ DateAttributes(origin) # {}) =>
          /\ "persisted" \in DOMAIN value
          /\ \A k \in DateAttributes(origin) : value[k] = origin[k]

\* C19: to_dict returns a mapping whose keys are the attributes set on
\* the instance, each with its value: an attribute never set is absent,
\* and so is the private state of the instance.
C19_ToDictPublicAttributes ==
    applied = <<"to_dict">> =>
        /\ "dict" \in DOMAIN value
        /\ DOMAIN value.dict =
             {k \in {"id", "name", "birthdate"} : "unset" \notin DOMAIN origin[k]}
        /\ \A k \in DOMAIN value.dict : value.dict[k] = origin[k]

C19_Witness ==
    /\ applied = <<"to_dict">>
    /\ "unset" \in DOMAIN origin.id
    /\ DOMAIN value.dict = {"name", "birthdate"}

\* C20: to_json returns a JSON text that decodes to a mapping with the
\* keys of to_dict, a date under a key rendered as the text YYYY-MM-DD of
\* that date, a datetime as YYYY-MM-DDTHH:MM:SS, every other value as
\* itself.
C20_ToJsonRendersIso ==
    applied = <<"to_json">> =>
        /\ "json" \in DOMAIN value
        /\ "value" \in DOMAIN Loads(value.json)
        /\ LET decoded == Loads(value.json).value.dict
           IN /\ DOMAIN decoded =
                   {k \in {"id", "name", "birthdate"} : "unset" \notin DOMAIN origin[k]}
              /\ \A k \in DOMAIN decoded :
                   IF "date" \in DOMAIN origin[k]
                   THEN /\ "text" \in DOMAIN decoded[k]
                        /\ IsIsoDate(decoded[k].text)
                        /\ DateOf(decoded[k].text) = origin[k].date
                   ELSE IF "datetime" \in DOMAIN origin[k]
                   THEN /\ "text" \in DOMAIN decoded[k]
                        /\ Len(decoded[k].text) = 19
                        /\ decoded[k].text[11] = "T"
                        /\ IsIsoDate(SubSeq(decoded[k].text, 1, 10))
                        /\ IsIsoTime(SubSeq(decoded[k].text, 12, 19))
                        /\ DateOf(SubSeq(decoded[k].text, 1, 10)) = origin[k].datetime[1]
                        /\ TimeOf(SubSeq(decoded[k].text, 12, 19)) = origin[k].datetime[2]
                   ELSE decoded[k] = origin[k]

C20_Witness ==
    /\ applied = <<"to_json">>
    /\ "datetime" \in DOMAIN origin.birthdate
    /\ "str" \in DOMAIN origin.name
    /\ "json" \in DOMAIN value /\ Len(value.json) > 8

\* C21: the representation of an instance is the name of its type, then
\* between parentheses its attributes that are set, in the order
\* birthdate, id, name of their names, each as name=repr(value), joined
\* by ', ': it is the same for every order of assignment.
C21_ReprSortedByName ==
    applied = <<"repr">> =>
        LET e == origin.inst
            part(k) == IF "unset" \in DOMAIN e[k] THEN <<>> ELSE <<<<k, "=">> \o PyRepr(e[k])>>
            parts == part("birthdate") \o part("id") \o part("name")
            body == IF Len(parts) = 0 THEN <<>>
                    ELSE IF Len(parts) = 1 THEN parts[1]
                    ELSE IF Len(parts) = 2 THEN parts[1] \o <<", ">> \o parts[2]
                    ELSE parts[1] \o <<", ">> \o parts[2] \o <<", ">> \o parts[3]
        IN value = [text |-> <<"Dummy", "(">> \o body \o <<")">>]

C21_Witness ==
    /\ applied = <<"repr">>
    /\ origin.order = <<"_sa_instance_state", "name", "birthdate">>
    /\ value = [text |-> <<"Dummy", "(", "birthdate", "=", "datetime.date(",
                            "1", "9", "8", "6", ", ", "4", ", ", "4", ")", ", ",
                            "name", "=", "'", "J", "o", "n", "'", ")">>]

\* C22: an error raised by save, fetch, select or delete from one of
\* their except clauses is one of the kinds that app/common/errors.py
\* defines (the errors of the database that no except clause catches are
\* the subject of C14).
C22_ErrorKindsClosed ==
    \A c \in Callers :
        (pc[c] = "done" /\ outcome[c] \notin {"returned", RawError("db")})
            => outcome[c] \in DomainErrors

\* C23: delete called on an instance whose id is the id of a row, when no
\* statement fails, returns True and leaves no row with that id.
C23_DeleteRemovesRow ==
    \A c \in Callers :
        (/\ Done(c, "delete")
         /\ IsInt(call[c].receiver.id)
         /\ call[c].receiver.id.int \in DOMAIN before[c]
         /\ ~faulted[c])
        => /\ outcome[c] = "returned"
           /\ ret[c] = [bool |-> TRUE]
           /\ call[c].receiver.id.int \notin DOMAIN table

\* C24: the table arguments of every entity type hold the default options
\* of the storage engine, and with them every constraint that the body
\* of the entity type assigns to __constraints.
C24_TableArgsKeepDefaults ==
    applied = <<"__table_args__">> =>
        LET held_args == {value.tuple[n] : n \in 1..Len(value.tuple)}
        IN /\ [options |-> [mysql_engine |-> "InnoDB", mysql_charset |-> "utf8",
                            mysql_collate |-> "utf8_general_ci"]] \in held_args
           /\ \A d \in origin.body :
                (d.name = <<"__", "constraints">> /\ "none" \notin DOMAIN d.value)
                    => d.value \in held_args

\* C25: a save call attempts its commit at most once, and exactly once
\* when it has reached its try block; a commit that failed is followed by
\* one rollback and then by UnableToSaveModelInDB or SavingModelFailed,
\* never by another commit; a commit that succeeded is followed by no
\* rollback.
C25_CommitOnce ==
    \A c \in Callers :
        call[c].op = "save" =>
            /\ trail[c] \in {<<>>, <<"commit">>, <<"commit failed">>,
                             <<"commit failed", "rollback">>}
            /\ pc[c] \in {"connect", "stage", "commit"} => trail[c] = <<>>
            /\ pc[c] \in {"saved", "return"} => trail[c] = <<"commit">>
            /\ pc[c] = "rollback" => trail[c] = <<"commit failed">>
            /\ (pc[c] = "done" /\ outcome[c] = "returned") => trail[c] = <<"commit">>
            /\ trail[c] = <<"commit failed", "rollback">> =>
                 /\ pc[c] = "done"
                 /\ outcome[c] \in {"UnableToSaveModelInDB", "SavingModelFailed"}
            /\ (pc[c] = "done" /\ outcome[c] \in {"UnableToSaveModelInDB", "SavingModelFailed"})
                 => trail[c] = <<"commit failed", "rollback">>

C25_Witness ==
    \E c \in Callers :
        /\ Done(c, "save")
        /\ trail[c] = <<"commit failed", "rollback">>
        /\ outcome[c] = "SavingModelFailed"

\* C26: save of an instance whose id is an integer that is the id of no
\* row, with a name and no failed statement, returns; the table gains
\* exactly the row with that id, carrying the instance's attributes, the
\* other rows are as before, and the instance returned has that id.  No
\* such save raises UnknownModelId.
C26_SaveInsertsGivenId ==
    \A c \in Callers :
        (/\ Done(c, "save")
         /\ IsInt(call[c].receiver.id)
         /\ call[c].receiver.id.int \notin DOMAIN before[c])
        => LET e == call[c].receiver
               i == e.id.int
           IN /\ outcome[c] # "UnknownModelId"
              /\ ("str" \in DOMAIN e.name /\ ~faulted[c]) =>
                   /\ outcome[c] = "returned"
                   /\ DOMAIN table = DOMAIN before[c] \cup {i}
                   /\ Cardinality(DOMAIN table) = Cardinality(DOMAIN before[c]) + 1
                   /\ \A j \in DOMAIN before[c] : table[j] = before[c][j]
                   /\ table[i].name = e.name
                   /\ table[i].birthdate =
                        (IF "unset" \in DOMAIN e.birthdate THEN [none |-> TRUE]
                         ELSE e.birthdate)
                   /\ ret[c].id = e.id
                   /\ ret[c].name = e.name

C26_Witness ==
    \E c \in Callers :
        /\ Done(c, "save")
        /\ call[c].receiver.id = [int |-> 2]
        /\ DOMAIN before[c] = {1}
        /\ outcome[c] = "returned"
        /\ DOMAIN table = {1, 2}
        /\ ret[c].id = [int |-> 2]

\* C27: fetch and select write nothing: at every point of such a call and
\* whatever its outcome, the table is the table the call was made on.
C27_ReadsLeaveTable ==
    \A c \in Callers :
        call[c].op \in {"fetch", "select"} => table = before[c]

C27_Witness ==
    \E c \in Callers :
        /\ Done(c, "fetch")
        /\ outcome[c] = "UnknownModelId"
        /\ rolledBack[c]
        /\ DOMAIN table = {1, 2}

====
